---- MODULE Spec2Model ----
(***************************************************************************)
(* Model of src/multimedia.c (atari800): the recording session that owns   *)
(* at most one open output file, a sound file (sndoutput) or a video file  *)
(* (avioutput), and forwards writes to the WAV / AVI encoders.             *)
(*                                                                         *)
(* The C functions are modelled as operators over a record `st` holding    *)
(* the two static file pointers plus the bookkeeping of the encoder calls  *)
(* made so far.  The encoders themselves (file_export.c) are external:     *)
(* every call to one of them is recorded in st.log and its result is taken *)
(* from an oracle record `o` that the caller's action chooses freely.      *)
(***************************************************************************)
EXTENDS Integers, Sequences, FiniteSets

\* ------------------------------------------------------------------ bounds
\* Number of distinct file handles the encoders may hand out in one run.
MaxHandles == 3
\* Largest non-zero value an encoder write primitive may return.
MaxWriteRet == 2
\* Largest uiSize passed to WriteAudio.
MaxSize == 2
\* Close counts per handle are recorded up to this value.
MaxCloseCnt == 2
\* Number of handles the encoders hand out to the concurrent callers.
MaxConcHandles == 2

\* ------------------------------------------------------- program constants
NULL == 0

Handles == 1..MaxHandles
Bool01(b) == IF b THEN 1 ELSE 0

\* Oracle: the outcomes of the encoder primitives during one call.
\*   open  - whether WAV_OpenFile / AVI_OpenFile returns a handle
\*   write - value returned by the encoder write primitive
\*   cw/ca - value returned by WAV_CloseFile / AVI_CloseFile
Oracles == [open : BOOLEAN, write : 0..MaxWriteRet, cw : 0..1, ca : 0..1]

VARIABLES
  sndoutput,    \* static FILE *sndoutput
  avioutput,    \* static FILE *avioutput
  nextHandle,   \* next handle value an encoder open will return
  opener,       \* handle -> encoder that returned it ("none" if not yet)
  closeCnt,     \* handle -> number of encoder close calls on it (capped)
  log,          \* encoder calls made by the most recent operation, in order
  lastOp,       \* name of the most recent operation
  lastRet,      \* its return value
  lastBuf,      \* ucBuffer argument of the most recent WriteAudio (0 = null)
  lastSize,     \* uiSize argument of the most recent WriteAudio
  preSnd,       \* sndoutput before the most recent operation
  preAvi,       \* avioutput before the most recent operation
  lastOpenOk,   \* encoder open of the most recent Open call returned a handle
  endedSince,   \* a CloseFile call or a failed encoder write since that Open
  prevOp,       \* name of the operation before the most recent one
  failClosed,   \* a failed encoder write closed the session and no Open has
                \* succeeded since
  \* --- concurrent callers (specifications SpecLocked and SpecRace) ---
  pc,           \* caller -> statement it executes next ("idle" between calls)
  loc,          \* caller -> locals of the call in progress
  mutex,        \* holder of the mutual-exclusion scope, or "free"
  overlapped,   \* some call was started while another call was in progress
  overwrote,    \* a pointer holding an unclosed handle has been overwritten
  openedBy      \* caller whose Open stored the handle most recently

vars == <<sndoutput, avioutput, nextHandle, opener, closeCnt, log, lastOp,
          lastRet, lastBuf, lastSize, preSnd, preAvi, lastOpenOk, endedSince,
          prevOp, failClosed, pc, loc, mutex, overlapped, overwrote, openedBy>>

seqVars  == <<log, lastOp, lastRet, lastBuf, lastSize, preSnd, preAvi,
              lastOpenOk, endedSince, prevOp, failClosed>>
concVars == <<pc, loc, mutex, overlapped, overwrote, openedBy>>

Callers == {"c1", "c2"}
NoLocals == [op |-> "none", ret |-> "ret", h |-> NULL, res |-> 0,
             wfail |-> FALSE]

\* The record the C functions operate on, taken from the current state with
\* an empty call log.
Cur == [snd |-> sndoutput, avi |-> avioutput, next |-> nextHandle,
        opn |-> opener, cnt |-> closeCnt, log |-> <<>>, ret |-> 0]

\* ------------------------------------------------------ encoder primitives
Call(st, fn, h, r) ==
  Append(st.log, [fn |-> fn, h |-> h, ret |-> r,
                  stale |-> (h \in DOMAIN st.cnt /\ st.cnt[h] > 0)])

Bump(cnt, h) ==
  IF h \in DOMAIN cnt
  THEN [cnt EXCEPT ![h] = IF @ < MaxCloseCnt THEN @ + 1 ELSE @]
  ELSE cnt

\* fp = XXX_OpenFile(name): a fresh handle, or NULL
EncOpen(st, enc, ok) ==
  LET h == IF ok /\ st.next \in DOMAIN st.opn THEN st.next ELSE NULL
  IN [st EXCEPT !.log  = Call(st, enc \o "_OpenFile", h, h),
                !.next = IF h # NULL THEN st.next + 1 ELSE st.next,
                !.opn  = IF h # NULL THEN [st.opn EXCEPT ![h] = enc] ELSE st.opn,
                !.ret  = h]

\* XXX_CloseFile(fp)
EncClose(st, enc, h, r) ==
  [st EXCEPT !.log = Call(st, enc \o "_CloseFile", h, r),
             !.cnt = Bump(st.cnt, h),
             !.ret = r]

\* WAV_WriteSamples / AVI_AddAudioSamples / AVI_AddVideoFrame
EncWrite(st, fn, h, r) ==
  [st EXCEPT !.log = Call(st, fn, h, r), !.ret = r]

\* ------------------------------------------------------------ multimedia.c
Multimedia_IsFileOpen(st) == st.snd # NULL \/ st.avi # NULL

\* Variant: avioutput is cleared only when AVI_CloseFile reports success.
Multimedia_CloseFile_KeepOnFailure(st, o) ==
  LET s0 == [st EXCEPT !.ret = 1]
      s1 == IF s0.snd # NULL
            THEN [EncClose(s0, "WAV", s0.snd, o.cw) EXCEPT !.snd = NULL]
            ELSE s0
      s2 == IF s1.avi # NULL
            THEN [EncClose(s1, "AVI", s1.avi, o.ca)
                    EXCEPT !.avi = IF o.ca # 0 THEN NULL ELSE s1.avi]
            ELSE s1
  IN s2

\* Variant: bSuccess starts as FALSE.
Multimedia_CloseFile_InitFalse(st, o) ==
  LET s0 == [st EXCEPT !.ret = 0]
      s1 == IF s0.snd # NULL
            THEN [EncClose(s0, "WAV", s0.snd, o.cw) EXCEPT !.snd = NULL]
            ELSE s0
      s2 == IF s1.avi # NULL
            THEN [EncClose(s1, "AVI", s1.avi, o.ca) EXCEPT !.avi = NULL]
            ELSE s1
  IN s2

\* Variant: sndoutput is not reset after WAV_CloseFile.
Multimedia_CloseFile_DanglingSnd(st, o) ==
  LET s0 == [st EXCEPT !.ret = 1]
      s1 == IF s0.snd # NULL
            THEN EncClose(s0, "WAV", s0.snd, o.cw)
            ELSE s0
      s2 == IF s1.avi # NULL
            THEN [EncClose(s1, "AVI", s1.avi, o.ca) EXCEPT !.avi = NULL]
            ELSE s1
  IN s2

\* Variant: sndoutput is cleared without calling WAV_CloseFile.
Multimedia_CloseFile_LeakSnd(st, o) ==
  LET s0 == [st EXCEPT !.ret = 1]
      s1 == IF s0.snd # NULL THEN [s0 EXCEPT !.snd = NULL] ELSE s0
      s2 == IF s1.avi # NULL
            THEN [EncClose(s1, "AVI", s1.avi, o.ca) EXCEPT !.avi = NULL]
            ELSE s1
  IN s2

Multimedia_CloseFile(st, o) ==
  LET s0 == [st EXCEPT !.ret = 1]                       \* bSuccess = TRUE
      s1 == IF s0.snd # NULL
            THEN [EncClose(s0, "WAV", s0.snd, o.cw) EXCEPT !.snd = NULL]
            ELSE s0
      s2 == IF s1.avi # NULL
            THEN [EncClose(s1, "AVI", s1.avi, o.ca) EXCEPT !.avi = NULL]
            ELSE s1
  IN s2

\* Variant: the call to Multimedia_CloseFile is missing.
Multimedia_OpenSoundFile_NoClose(st, o) ==
  LET s2 == EncOpen(st, "WAV", o.open)
      s3 == [s2 EXCEPT !.snd = s2.ret]
  IN [s3 EXCEPT !.ret = Bool01(s3.snd # NULL)]

\* Variant: the old file is closed and replaced only when the new open
\* succeeds.
Multimedia_OpenSoundFile_KeepOld(st, o) ==
  LET s1 == EncOpen(st, "WAV", o.open)
      h  == s1.ret
  IN IF h # NULL
     THEN [Multimedia_CloseFile(s1, o) EXCEPT !.snd = h, !.ret = 1]
     ELSE [s1 EXCEPT !.ret = 0]

Multimedia_OpenSoundFile(st, o) ==
  LET s1 == Multimedia_CloseFile(st, o)
      s2 == EncOpen(s1, "WAV", o.open)
      s3 == [s2 EXCEPT !.snd = s2.ret]
  IN [s3 EXCEPT !.ret = Bool01(s3.snd # NULL)]

\* Variant: a failed AVI_AddAudioSamples does not close the file.
Multimedia_WriteAudio_NoCloseAvi(st, ucBuffer, uiSize, o) ==
  LET s0 == [st EXCEPT !.ret = 0]
  IN IF ucBuffer # NULL /\ uiSize # 0
     THEN IF s0.snd # NULL
          THEN LET s1 == EncWrite(s0, "WAV_WriteSamples", s0.snd, o.write)
               IN IF s1.ret = 0
                  THEN [Multimedia_CloseFile(s1, o) EXCEPT !.ret = s1.ret]
                  ELSE s1
          ELSE IF s0.avi # NULL
          THEN EncWrite(s0, "AVI_AddAudioSamples", s0.avi, o.write)
          ELSE s0
     ELSE s0

\* Variant: the argument test is (ucBuffer || uiSize).
Multimedia_WriteAudio_OrGuard(st, ucBuffer, uiSize, o) ==
  LET s0 == [st EXCEPT !.ret = 0]
  IN IF ucBuffer # NULL \/ uiSize # 0
     THEN IF s0.snd # NULL
          THEN LET s1 == EncWrite(s0, "WAV_WriteSamples", s0.snd, o.write)
               IN IF s1.ret = 0
                  THEN [Multimedia_CloseFile(s1, o) EXCEPT !.ret = s1.ret]
                  ELSE s1
          ELSE IF s0.avi # NULL
          THEN LET s1 == EncWrite(s0, "AVI_AddAudioSamples", s0.avi, o.write)
               IN IF s1.ret = 0
                  THEN [Multimedia_CloseFile(s1, o) EXCEPT !.ret = s1.ret]
                  ELSE s1
          ELSE s0
     ELSE s0

\* Variant: the result is normalised to 0/1 instead of being passed through.
Multimedia_WriteAudio_BoolResult(st, ucBuffer, uiSize, o) ==
  LET s0 == [st EXCEPT !.ret = 0]
  IN IF ucBuffer # NULL /\ uiSize # 0
     THEN IF s0.snd # NULL
          THEN LET s1 == EncWrite(s0, "WAV_WriteSamples", s0.snd, o.write)
               IN IF s1.ret = 0
                  THEN [Multimedia_CloseFile(s1, o) EXCEPT !.ret = 0]
                  ELSE [s1 EXCEPT !.ret = 1]
          ELSE IF s0.avi # NULL
          THEN LET s1 == EncWrite(s0, "AVI_AddAudioSamples", s0.avi, o.write)
               IN IF s1.ret = 0
                  THEN [Multimedia_CloseFile(s1, o) EXCEPT !.ret = 0]
                  ELSE [s1 EXCEPT !.ret = 1]
          ELSE s0
     ELSE s0

\* Variant: result starts as uiSize instead of 0.
Multimedia_WriteAudio_DefaultSize(st, ucBuffer, uiSize, o) ==
  LET s0 == [st EXCEPT !.ret = uiSize]
  IN IF ucBuffer # NULL /\ uiSize # 0
     THEN IF s0.snd # NULL
          THEN LET s1 == EncWrite(s0, "WAV_WriteSamples", s0.snd, o.write)
               IN IF s1.ret = 0
                  THEN [Multimedia_CloseFile(s1, o) EXCEPT !.ret = s1.ret]
                  ELSE s1
          ELSE IF s0.avi # NULL
          THEN LET s1 == EncWrite(s0, "AVI_AddAudioSamples", s0.avi, o.write)
               IN IF s1.ret = 0
                  THEN [Multimedia_CloseFile(s1, o) EXCEPT !.ret = s1.ret]
                  ELSE s1
          ELSE s0
     ELSE s0

\* Variant: a failed encoder write is tried a second time before closing.
Multimedia_WriteAudio_Retry(st, ucBuffer, uiSize, o) ==
  LET s0 == [st EXCEPT !.ret = 0]
      Try(s, fn, h) ==
        LET s1 == EncWrite(s, fn, h, o.write)
            s2 == IF s1.ret = 0 THEN EncWrite(s1, fn, h, o.write) ELSE s1
        IN IF s2.ret = 0
           THEN [Multimedia_CloseFile(s2, o) EXCEPT !.ret = s2.ret]
           ELSE s2
  IN IF ucBuffer # NULL /\ uiSize # 0
     THEN IF s0.snd # NULL THEN Try(s0, "WAV_WriteSamples", s0.snd)
          ELSE IF s0.avi # NULL THEN Try(s0, "AVI_AddAudioSamples", s0.avi)
          ELSE s0
     ELSE s0

\* Variant: the test after AVI_AddAudioSamples is inverted (result != 0).
Multimedia_WriteAudio_CloseOnSuccess(st, ucBuffer, uiSize, o) ==
  LET s0 == [st EXCEPT !.ret = 0]
  IN IF ucBuffer # NULL /\ uiSize # 0
     THEN IF s0.snd # NULL
          THEN LET s1 == EncWrite(s0, "WAV_WriteSamples", s0.snd, o.write)
               IN IF s1.ret = 0
                  THEN [Multimedia_CloseFile(s1, o) EXCEPT !.ret = s1.ret]
                  ELSE s1
          ELSE IF s0.avi # NULL
          THEN LET s1 == EncWrite(s0, "AVI_AddAudioSamples", s0.avi, o.write)
               IN IF s1.ret # 0
                  THEN [Multimedia_CloseFile(s1, o) EXCEPT !.ret = s1.ret]
                  ELSE s1
          ELSE s0
     ELSE s0

Multimedia_WriteAudio(st, ucBuffer, uiSize, o) ==
  LET s0 == [st EXCEPT !.ret = 0]                       \* result = 0
  IN IF ucBuffer # NULL /\ uiSize # 0
     THEN IF s0.snd # NULL
          THEN LET s1 == EncWrite(s0, "WAV_WriteSamples", s0.snd, o.write)
               IN IF s1.ret = 0
                  THEN [Multimedia_CloseFile(s1, o) EXCEPT !.ret = s1.ret]
                  ELSE s1
          ELSE IF s0.avi # NULL
          THEN LET s1 == EncWrite(s0, "AVI_AddAudioSamples", s0.avi, o.write)
               IN IF s1.ret = 0
                  THEN [Multimedia_CloseFile(s1, o) EXCEPT !.ret = s1.ret]
                  ELSE s1
          ELSE s0
     ELSE s0

\* Variant: the new file is opened before the old one is closed.
Multimedia_OpenVideoFile_OpenFirst(st, o) ==
  LET s1 == EncOpen(st, "AVI", o.open)
      h  == s1.ret
      s2 == Multimedia_CloseFile(s1, o)
      s3 == [s2 EXCEPT !.avi = h]
  IN [s3 EXCEPT !.ret = Bool01(s3.avi # NULL)]

\* Variant: the result also requires the implicit close to have succeeded.
Multimedia_OpenVideoFile_AndClose(st, o) ==
  LET s1 == Multimedia_CloseFile(st, o)
      s2 == EncOpen(s1, "AVI", o.open)
      s3 == [s2 EXCEPT !.avi = s2.ret]
  IN [s3 EXCEPT !.ret = Bool01(s1.ret # 0 /\ s3.avi # NULL)]

Multimedia_OpenVideoFile(st, o) ==
  LET s1 == Multimedia_CloseFile(st, o)
      s2 == EncOpen(s1, "AVI", o.open)
      s3 == [s2 EXCEPT !.avi = s2.ret]
  IN [s3 EXCEPT !.ret = Bool01(s3.avi # NULL)]

\* Variant: a failed AVI_AddVideoFrame does not close the file.
Multimedia_WriteVideo_NoClose(st, o) ==
  LET s0 == [st EXCEPT !.ret = 0]
  IN IF s0.avi # NULL
     THEN EncWrite(s0, "AVI_AddVideoFrame", s0.avi, o.write)
     ELSE s0

\* Variant: the (result == 0) test sits outside the (avioutput) test.
Multimedia_WriteVideo_CloseOutside(st, o) ==
  LET s0 == [st EXCEPT !.ret = 0]
      s1 == IF s0.avi # NULL
            THEN EncWrite(s0, "AVI_AddVideoFrame", s0.avi, o.write)
            ELSE s0
  IN IF s1.ret = 0
     THEN [Multimedia_CloseFile(s1, o) EXCEPT !.ret = s1.ret]
     ELSE s1

\* Variant: the file is closed after every frame.
Multimedia_WriteVideo_CloseAlways(st, o) ==
  LET s0 == [st EXCEPT !.ret = 0]
  IN IF s0.avi # NULL
     THEN LET s1 == EncWrite(s0, "AVI_AddVideoFrame", s0.avi, o.write)
          IN [Multimedia_CloseFile(s1, o) EXCEPT !.ret = s1.ret]
     ELSE s0

Multimedia_WriteVideo(st, o) ==
  LET s0 == [st EXCEPT !.ret = 0]                       \* result = 0
  IN IF s0.avi # NULL
     THEN LET s1 == EncWrite(s0, "AVI_AddVideoFrame", s0.avi, o.write)
          IN IF s1.ret = 0
             THEN [Multimedia_CloseFile(s1, o) EXCEPT !.ret = s1.ret]
             ELSE s1
     ELSE s0

\* ---------------------------------------------------------------- actions
WriteFns == {"WAV_WriteSamples", "AVI_AddAudioSamples", "AVI_AddVideoFrame"}
CloseFns == {"WAV_CloseFile", "AVI_CloseFile"}
OpenFns  == {"WAV_OpenFile", "AVI_OpenFile"}

WriteFailedIn(l) == \E i \in 1..Len(l) : l[i].fn \in WriteFns /\ l[i].ret = 0
OpenOkIn(l)      == \E i \in 1..Len(l) : l[i].fn \in OpenFns /\ l[i].ret # NULL

\* Store the result of one call of a C function back into the state.
Commit(st, op) ==
  /\ sndoutput'  = st.snd
  /\ avioutput'  = st.avi
  /\ nextHandle' = st.next
  /\ opener'     = st.opn
  /\ closeCnt'   = st.cnt
  /\ log'        = st.log
  /\ lastRet'    = st.ret
  /\ lastOp'     = op
  /\ preSnd'     = sndoutput
  /\ preAvi'     = avioutput
  /\ prevOp'     = lastOp
  /\ UNCHANGED concVars

Init ==
  /\ sndoutput = NULL
  /\ avioutput = NULL
  /\ nextHandle = 1
  /\ opener = [h \in Handles |-> "none"]
  /\ closeCnt = [h \in Handles |-> 0]
  /\ log = <<>>
  /\ lastOp = "init"
  /\ lastRet = 0
  /\ lastBuf = NULL
  /\ lastSize = 0
  /\ preSnd = NULL
  /\ preAvi = NULL
  /\ lastOpenOk = FALSE
  /\ endedSince = FALSE
  /\ prevOp = "init"
  /\ failClosed = FALSE
  /\ pc = [c \in Callers |-> "idle"]
  /\ loc = [c \in Callers |-> NoLocals]
  /\ mutex = "free"
  /\ overlapped = FALSE
  /\ overwrote = FALSE
  /\ openedBy = "none"

OpenSoundFile ==
  \E o \in Oracles :
    LET st == Multimedia_OpenSoundFile(Cur, o) IN
    /\ Commit(st, "OpenSoundFile")
    /\ lastOpenOk' = OpenOkIn(st.log)
    /\ endedSince' = FALSE
    /\ failClosed' = (failClosed /\ ~OpenOkIn(st.log))
    /\ UNCHANGED <<lastBuf, lastSize>>

OpenVideoFile ==
  \E o \in Oracles :
    LET st == Multimedia_OpenVideoFile(Cur, o) IN
    /\ Commit(st, "OpenVideoFile")
    /\ lastOpenOk' = OpenOkIn(st.log)
    /\ endedSince' = FALSE
    /\ failClosed' = (failClosed /\ ~OpenOkIn(st.log))
    /\ UNCHANGED <<lastBuf, lastSize>>

WriteAudio ==
  \E o \in Oracles, ucBuffer \in {NULL, 1}, uiSize \in 0..MaxSize :
    LET st == Multimedia_WriteAudio(Cur, ucBuffer, uiSize, o) IN
    /\ Commit(st, "WriteAudio")
    /\ lastBuf' = ucBuffer
    /\ lastSize' = uiSize
    /\ endedSince' = (endedSince \/ WriteFailedIn(st.log))
    /\ failClosed' = (failClosed \/ WriteFailedIn(st.log))
    /\ UNCHANGED lastOpenOk

\* Variant: a WriteVideo that directly follows a WriteVideo is rejected.
WriteVideo_Ordered ==
  \E o \in Oracles :
    LET st == IF lastOp = "WriteVideo"
              THEN [Cur EXCEPT !.ret = 0]
              ELSE Multimedia_WriteVideo(Cur, o) IN
    /\ Commit(st, "WriteVideo")
    /\ endedSince' = (endedSince \/ WriteFailedIn(st.log))
    /\ failClosed' = (failClosed \/ WriteFailedIn(st.log))
    /\ UNCHANGED <<lastBuf, lastSize, lastOpenOk>>

WriteVideo ==
  \E o \in Oracles :
    LET st == Multimedia_WriteVideo(Cur, o) IN
    /\ Commit(st, "WriteVideo")
    /\ endedSince' = (endedSince \/ WriteFailedIn(st.log))
    /\ failClosed' = (failClosed \/ WriteFailedIn(st.log))
    /\ UNCHANGED <<lastBuf, lastSize, lastOpenOk>>

CloseFile ==
  \E o \in Oracles :
    LET st == Multimedia_CloseFile(Cur, o) IN
    /\ Commit(st, "CloseFile")
    /\ endedSince' = TRUE
    /\ UNCHANGED <<lastBuf, lastSize, lastOpenOk, failClosed>>

Next == OpenSoundFile \/ OpenVideoFile \/ WriteAudio \/ WriteVideo \/ CloseFile

Spec == Init /\ [][Next]_vars

TypeOK ==
  /\ sndoutput \in Handles \cup {NULL}
  /\ avioutput \in Handles \cup {NULL}
  /\ nextHandle \in 1..(MaxHandles + 1)
  /\ opener \in [Handles -> {"none", "WAV", "AVI"}]
  /\ closeCnt \in [Handles -> 0..MaxCloseCnt]
  /\ lastRet \in 0..MaxWriteRet
  /\ Len(log) <= 2

\* ------------------------------------------------- statement-level callers
\* Each caller executes the C functions one statement at a time.  A pointer
\* tested in one statement and passed to an encoder in the next may be
\* passed as the value tested or as the value the variable holds by then.
Goto(c, l)    == pc' = [pc EXCEPT ![c] = l]
Drops(p, new) == p # NULL /\ p # new /\ closeCnt[p] = 0
Entry(op) ==
  CASE op = "WriteAudio" -> "wa_test"
    [] op = "WriteVideo" -> "wv_test"
    [] OTHER             -> "cf_test_snd"
Cont(op) ==
  CASE op = "OpenSoundFile" -> "os_open"
    [] op = "OpenVideoFile" -> "ov_open"
    [] OTHER                -> "ret"
ConcOps == {"OpenSoundFile", "OpenVideoFile", "WriteAudio", "WriteVideo",
            "CloseFile"}

\* The mutual-exclusion scope that covers one full call.
Acquire(c, locking) ==
  /\ locking => mutex = "free"
  /\ mutex' = IF locking THEN c ELSE mutex
Release(c) == mutex' = IF mutex = c THEN "free" ELSE mutex

\* A caller enters one of the public functions; with `locking` it first
\* takes the mutual-exclusion scope.
Start(c, locking) ==
  /\ pc[c] = "idle"
  /\ Acquire(c, locking)
  /\ \E op \in ConcOps :
       /\ loc' = [loc EXCEPT ![c] = [NoLocals EXCEPT !.op = op, !.ret = Cont(op)]]
       /\ Goto(c, Entry(op))
  /\ overlapped' = (overlapped \/ \E d \in Callers \ {c} : pc[d] # "idle")
  /\ UNCHANGED <<sndoutput, avioutput, nextHandle, opener, closeCnt,
                 overwrote, openedBy, seqVars>>

\* Variant: the sound file is never closed.
CF_TestSnd_Skip(c) ==
  /\ pc[c] = "cf_test_snd"
  /\ loc' = [loc EXCEPT ![c].res = 1, ![c].h = sndoutput]
  /\ Goto(c, "cf_test_avi")
  /\ UNCHANGED <<sndoutput, avioutput, nextHandle, opener, closeCnt, mutex,
                 overlapped, overwrote, openedBy, seqVars>>

\* int bSuccess = TRUE; if (sndoutput != NULL)
CF_TestSnd(c) ==
  /\ pc[c] = "cf_test_snd"
  /\ loc' = [loc EXCEPT ![c].res = 1, ![c].h = sndoutput]
  /\ Goto(c, IF sndoutput # NULL THEN "cf_close_snd" ELSE "cf_test_avi")
  /\ UNCHANGED <<sndoutput, avioutput, nextHandle, opener, closeCnt, mutex,
                 overlapped, overwrote, openedBy, seqVars>>

\* bSuccess = WAV_CloseFile(sndoutput);
CF_CloseSnd(c) ==
  /\ pc[c] = "cf_close_snd"
  /\ \E h \in {loc[c].h, sndoutput}, r \in 0..1 :
       /\ closeCnt' = Bump(closeCnt, h)
       /\ loc' = [loc EXCEPT ![c].res = r]
  /\ Goto(c, "cf_clear_snd")
  /\ UNCHANGED <<sndoutput, avioutput, nextHandle, opener, mutex,
                 overlapped, overwrote, openedBy, seqVars>>

\* sndoutput = NULL;
CF_ClearSnd(c) ==
  /\ pc[c] = "cf_clear_snd"
  /\ sndoutput' = NULL
  /\ overwrote' = (overwrote \/ Drops(sndoutput, NULL))
  /\ Goto(c, "cf_test_avi")
  /\ UNCHANGED <<avioutput, nextHandle, opener, closeCnt, loc, mutex,
                 overlapped, openedBy, seqVars>>

\* if (avioutput != NULL)
CF_TestAvi(c) ==
  /\ pc[c] = "cf_test_avi"
  /\ loc' = [loc EXCEPT ![c].h = avioutput]
  /\ Goto(c, IF avioutput # NULL THEN "cf_close_avi" ELSE loc[c].ret)
  /\ UNCHANGED <<sndoutput, avioutput, nextHandle, opener, closeCnt, mutex,
                 overlapped, overwrote, openedBy, seqVars>>

\* bSuccess = AVI_CloseFile(avioutput);
CF_CloseAvi(c) ==
  /\ pc[c] = "cf_close_avi"
  /\ \E h \in {loc[c].h, avioutput}, r \in 0..1 :
       /\ closeCnt' = Bump(closeCnt, h)
       /\ loc' = [loc EXCEPT ![c].res = r]
  /\ Goto(c, "cf_clear_avi")
  /\ UNCHANGED <<sndoutput, avioutput, nextHandle, opener, mutex,
                 overlapped, overwrote, openedBy, seqVars>>

\* Variant: avioutput is not reset after AVI_CloseFile.
CF_ClearAvi_Keep(c) ==
  /\ pc[c] = "cf_clear_avi"
  /\ Goto(c, loc[c].ret)
  /\ UNCHANGED <<sndoutput, avioutput, nextHandle, opener, closeCnt, loc,
                 mutex, overlapped, overwrote, openedBy, seqVars>>

\* avioutput = NULL; return bSuccess;
CF_ClearAvi(c) ==
  /\ pc[c] = "cf_clear_avi"
  /\ avioutput' = NULL
  /\ overwrote' = (overwrote \/ Drops(avioutput, NULL))
  /\ Goto(c, loc[c].ret)
  /\ UNCHANGED <<sndoutput, nextHandle, opener, closeCnt, loc, mutex,
                 overlapped, openedBy, seqVars>>

\* ... = WAV_OpenFile(szFileName) / AVI_OpenFile(szFileName): the call
EncOpenStep(c, enc, from, to) ==
  /\ pc[c] = from
  /\ \E ok \in BOOLEAN :
       LET h == IF ok /\ nextHandle \in Handles /\ nextHandle <= MaxConcHandles
               THEN nextHandle ELSE NULL IN
       /\ loc' = [loc EXCEPT ![c].h = h]
       /\ nextHandle' = IF h # NULL THEN nextHandle + 1 ELSE nextHandle
       /\ opener' = IF h # NULL THEN [opener EXCEPT ![h] = enc] ELSE opener
  /\ Goto(c, to)
  /\ UNCHANGED <<sndoutput, avioutput, closeCnt, mutex, overlapped,
                 overwrote, openedBy, seqVars>>

OS_Open(c) == EncOpenStep(c, "WAV", "os_open", "os_assign")

\* sndoutput = ...; return sndoutput != NULL;
OS_Assign(c) ==
  /\ pc[c] = "os_assign"
  /\ sndoutput' = loc[c].h
  /\ overwrote' = (overwrote \/ Drops(sndoutput, loc[c].h))
  /\ openedBy' = IF loc[c].h # NULL THEN c ELSE openedBy
  /\ loc' = [loc EXCEPT ![c].res = Bool01(loc[c].h # NULL)]
  /\ Goto(c, "ret")
  /\ UNCHANGED <<avioutput, nextHandle, opener, closeCnt, mutex, overlapped,
                 seqVars>>

OV_Open(c) == EncOpenStep(c, "AVI", "ov_open", "ov_assign")

\* avioutput = ...; return avioutput != NULL;
OV_Assign(c) ==
  /\ pc[c] = "ov_assign"
  /\ avioutput' = loc[c].h
  /\ overwrote' = (overwrote \/ Drops(avioutput, loc[c].h))
  /\ openedBy' = IF loc[c].h # NULL THEN c ELSE openedBy
  /\ loc' = [loc EXCEPT ![c].res = Bool01(loc[c].h # NULL)]
  /\ Goto(c, "ret")
  /\ UNCHANGED <<sndoutput, nextHandle, opener, closeCnt, mutex, overlapped,
                 seqVars>>

\* int result = 0; if (ucBuffer && uiSize) { if (sndoutput) ... else if
\* (avioutput) ...
WA_Test(c) ==
  /\ pc[c] = "wa_test"
  /\ \E valid \in BOOLEAN :
       IF valid /\ sndoutput # NULL
       THEN loc' = [loc EXCEPT ![c].h = sndoutput] /\ Goto(c, "wa_wav")
       ELSE IF valid /\ avioutput # NULL
       THEN loc' = [loc EXCEPT ![c].h = avioutput] /\ Goto(c, "wa_avi")
       ELSE loc' = loc /\ Goto(c, "ret")
  /\ UNCHANGED <<sndoutput, avioutput, nextHandle, opener, closeCnt, mutex,
                 overlapped, overwrote, openedBy, seqVars>>

\* result = <encoder write>(..., fp); if (result == 0) Multimedia_CloseFile();
EncWriteStep(c, from) ==
  /\ pc[c] = from
  /\ \E r \in 0..MaxWriteRet :
       /\ loc' = [loc EXCEPT ![c].res = r, ![c].wfail = (r = 0),
                             ![c].ret = "ret"]
       /\ Goto(c, IF r = 0 THEN "cf_test_snd" ELSE "ret")
  /\ UNCHANGED <<sndoutput, avioutput, nextHandle, opener, closeCnt, mutex,
                 overlapped, overwrote, openedBy, seqVars>>

WA_Wav(c) == EncWriteStep(c, "wa_wav")
WA_Avi(c) == EncWriteStep(c, "wa_avi")

\* int result = 0; if (avioutput)
WV_Test(c) ==
  /\ pc[c] = "wv_test"
  /\ loc' = [loc EXCEPT ![c].h = avioutput]
  /\ Goto(c, IF avioutput # NULL THEN "wv_frame" ELSE "ret")
  /\ UNCHANGED <<sndoutput, avioutput, nextHandle, opener, closeCnt, mutex,
                 overlapped, overwrote, openedBy, seqVars>>

WV_Frame(c) == EncWriteStep(c, "wv_frame")

\* The function returns; a held mutual-exclusion scope ends.
Return(c) ==
  /\ pc[c] = "ret"
  /\ Goto(c, "idle")
  /\ loc' = [loc EXCEPT ![c] = NoLocals]
  /\ Release(c)
  /\ UNCHANGED <<sndoutput, avioutput, nextHandle, opener, closeCnt,
                 overlapped, overwrote, openedBy, seqVars>>

Stmt(c) ==
  \/ CF_TestSnd(c) \/ CF_CloseSnd(c) \/ CF_ClearSnd(c)
  \/ CF_TestAvi(c) \/ CF_CloseAvi(c) \/ CF_ClearAvi(c)
  \/ OS_Open(c) \/ OS_Assign(c) \/ OV_Open(c) \/ OV_Assign(c)
  \/ WA_Test(c) \/ WA_Wav(c) \/ WA_Avi(c) \/ WV_Test(c) \/ WV_Frame(c)
  \/ Return(c)

NextLocked == \E c \in Callers : Start(c, TRUE) \/ Stmt(c)
NextRace   == \E c \in Callers : Start(c, FALSE) \/ Stmt(c)

\* Every call runs inside a mutual-exclusion scope.
SpecLocked == Init /\ [][NextLocked]_vars
\* No synchronisation: the callers' statements interleave freely.
SpecRace   == Init /\ [][NextRace]_vars

\* ------------------------------------------------------------- properties
IsOpen    == Multimedia_IsFileOpen(Cur)
Idle      == sndoutput = NULL /\ avioutput = NULL
PreOpen   == preSnd # NULL \/ preAvi # NULL
PreHandle == IF preSnd # NULL THEN preSnd ELSE preAvi
OpenOps   == {"OpenSoundFile", "OpenVideoFile"}
WriteOps  == {"WriteAudio", "WriteVideo"}
NewEnc    == IF lastOp = "OpenSoundFile" THEN "WAV" ELSE "AVI"
OpenFailedIn(l) == \E i \in 1..Len(l) : l[i].fn \in OpenFns /\ l[i].ret = NULL
ArgsOk    == lastBuf # NULL /\ lastSize # 0

\* C1: in every reachable state at most one of sndoutput and avioutput is
\* non-null.
C1_AtMostOneHandle == ~(sndoutput # NULL /\ avioutput # NULL)

C1_Witness ==
  lastOp = "OpenSoundFile" /\ preAvi # NULL /\ sndoutput # NULL /\ avioutput = NULL

\* C2: IsFileOpen() is true iff the encoder open of the most recent Open call
\* returned a handle and neither a CloseFile call nor a failed encoder write
\* has happened since that Open.
C2_IsOpenIffLive == IsOpen <=> (lastOpenOk /\ ~endedSince)

C2_Witness ==
  lastOp = "WriteVideo" /\ lastOpenOk /\ WriteFailedIn(log) /\ ~IsOpen

\* C3: an Open call made while a file is open first calls the close primitive
\* of the encoder that opened the current handle, on that handle, and only
\* then the open primitive of the new encoder.
C3_CloseBeforeOpen ==
  (lastOp \in OpenOps /\ PreOpen) =>
    /\ Len(log) = 2
    /\ log[1].fn = opener[PreHandle] \o "_CloseFile"
    /\ log[1].h = PreHandle
    /\ log[2].fn = NewEnc \o "_OpenFile"

C3_Witness ==
  lastOp = "OpenVideoFile" /\ preSnd # NULL /\ avioutput # NULL

\* C4: a WriteAudio or WriteVideo call whose encoder write primitive returned
\* 0 returns 0 and leaves no file open.
C4_WriteFailureCloses ==
  (lastOp \in WriteOps /\ WriteFailedIn(log)) => (lastRet = 0 /\ ~IsOpen)

C4_Witness ==
  lastOp = "WriteAudio" /\ preAvi # NULL /\ WriteFailedIn(log)

\* C5: after CloseFile no handle is active whatever the encoder close
\* returned; if a file was open, exactly one encoder call was made, the close
\* primitive of the encoder that opened the handle, on that handle, and
\* CloseFile returns its result.
C5_CloseAlwaysIdle ==
  lastOp = "CloseFile" =>
    /\ Idle
    /\ PreOpen =>
         /\ Len(log) = 1
         /\ log[1].fn = opener[PreHandle] \o "_CloseFile"
         /\ log[1].h = PreHandle
         /\ lastRet = log[1].ret

C5_Witness ==
  lastOp = "CloseFile" /\ preAvi # NULL /\ Len(log) = 1 /\ log[1].ret = 0

\* C6: CloseFile with nothing open returns TRUE, makes no encoder call and
\* leaves the session idle; a CloseFile that directly follows a CloseFile
\* makes no encoder call and returns TRUE.
C6_CloseNothingOpen ==
  (lastOp = "CloseFile" /\ ~PreOpen) => (lastRet = 1 /\ log = <<>> /\ Idle)

C6_RepeatedClose ==
  (lastOp = "CloseFile" /\ lastOp' = "CloseFile") =>
    (lastRet' = 1 /\ log' = <<>> /\ sndoutput' = NULL /\ avioutput' = NULL)

C6_CloseIdempotent == [] C6_CloseNothingOpen /\ [][C6_RepeatedClose]_vars

C6_Witness ==
  /\ lastOp = "CloseFile" /\ ~PreOpen /\ log = <<>>
  /\ \E h \in Handles : closeCnt[h] > 0

\* C7: WriteAudio with a null buffer or a zero size returns 0, makes no
\* encoder call and leaves both handles as they were.
C7_WriteAudioBadArgs ==
  (lastOp = "WriteAudio" /\ ~ArgsOk) =>
    (lastRet = 0 /\ log = <<>> /\ sndoutput = preSnd /\ avioutput = preAvi)

C7_Witness ==
  lastOp = "WriteAudio" /\ lastBuf = NULL /\ lastSize # 0 /\ sndoutput # NULL

\* C8: when the encoder open fails the Open call returns FALSE and the
\* session is idle; a file that was open before the call has been closed.
C8_OpenFailureIdle ==
  (lastOp \in OpenOps /\ OpenFailedIn(log)) =>
    /\ lastRet = 0
    /\ Idle
    /\ PreOpen => closeCnt[PreHandle] > 0

C8_Witness ==
  lastOp = "OpenSoundFile" /\ OpenFailedIn(log) /\ preSnd # NULL

\* C9: every encoder write primitive call is passed the handle that was
\* active when the operation started, and never a handle on which an
\* encoder close had already been called.
C9_NoWriteAfterClose ==
  \A i \in 1..Len(log) :
    log[i].fn \in WriteFns =>
      /\ ~log[i].stale
      /\ log[i].h # NULL
      /\ log[i].h = PreHandle

C9_Witness ==
  /\ lastOp = "WriteAudio" /\ Len(log) = 1 /\ log[1].fn = "WAV_WriteSamples"
  /\ \E h \in Handles : closeCnt[h] > 0

\* C10 (as stated): WriteAudio with valid arguments and a file open makes
\* exactly one encoder call, the write primitive selected by the open file,
\* and returns its result.
C10_ExactlyOneCall ==
  (lastOp = "WriteAudio" /\ ArgsOk /\ PreOpen) =>
    /\ Len(log) = 1
    /\ log[1].fn = (IF preSnd # NULL THEN "WAV_WriteSamples"
                                     ELSE "AVI_AddAudioSamples")
    /\ log[1].h = PreHandle
    /\ lastRet = log[1].ret

\* C10 (amended): WriteAudio with valid arguments and a file open calls
\* exactly one encoder write primitive, first, the one selected by the open
\* file, on the active handle, and returns its result; the only other
\* encoder call it can make is the close primitive of the same encoder, and
\* only when the write returned 0; no primitive of the other encoder is
\* called.
C10_RoutedWrite ==
  (lastOp = "WriteAudio" /\ ArgsOk /\ PreOpen) =>
    LET enc == opener[PreHandle] IN
    /\ Len(log) >= 1
    /\ log[1].fn = (IF preSnd # NULL THEN "WAV_WriteSamples"
                                     ELSE "AVI_AddAudioSamples")
    /\ log[1].h = PreHandle
    /\ lastRet = log[1].ret
    /\ Len(log) = (IF log[1].ret = 0 THEN 2 ELSE 1)
    /\ \A i \in 2..Len(log) :
         log[i].fn = enc \o "_CloseFile" /\ log[i].h = PreHandle
    /\ enc = (IF preSnd # NULL THEN "WAV" ELSE "AVI")

C10_Witness ==
  /\ lastOp = "WriteAudio" /\ ArgsOk /\ preAvi # NULL
  /\ Len(log) = 1 /\ log[1].fn = "AVI_AddAudioSamples" /\ lastRet = MaxWriteRet

NoOp == lastRet = 0 /\ log = <<>> /\ sndoutput = preSnd /\ avioutput = preAvi
NumWrites(l) == Cardinality({i \in 1..Len(l) : l[i].fn \in WriteFns})

\* C11: WriteVideo called while avioutput is NULL (idle, or an audio file
\* open) returns 0, makes no encoder call and leaves both handles as they
\* were, so an open audio file stays open.
C11_WriteVideoNoVideo ==
  (lastOp = "WriteVideo" /\ preAvi = NULL) => NoOp

C11_Witness ==
  lastOp = "WriteVideo" /\ preAvi = NULL /\ preSnd # NULL /\ sndoutput = preSnd

\* C12: once a failed write has closed the session no file is open until an
\* Open succeeds, and every WriteAudio / WriteVideo made while no file is
\* open (after such a failure, or from the initial state) returns 0 and
\* makes no encoder call.
C12_WritesAfterFailure ==
  /\ failClosed => Idle
  /\ (lastOp \in WriteOps /\ ~PreOpen) => (NoOp /\ Idle)

C12_Witness ==
  /\ lastOp = "WriteAudio" /\ ArgsOk /\ ~PreOpen /\ failClosed
  /\ prevOp = "WriteVideo" /\ log = <<>>

\* C13: a write whose encoder primitive returned non-zero makes no other
\* encoder call, returns that value and leaves both handles unchanged, so
\* the file that was open stays open.
C13_SuccessfulWriteKeepsFile ==
  (lastOp \in WriteOps /\ log # <<>> /\ log[1].ret # 0) =>
    /\ Len(log) = 1
    /\ sndoutput = preSnd /\ avioutput = preAvi
    /\ IsOpen
    /\ lastRet = log[1].ret

C13_Witness ==
  /\ lastOp = "WriteVideo" /\ prevOp = "WriteAudio" /\ lastRet # 0
  /\ avioutput # NULL /\ avioutput = preAvi

\* C14: one write call invokes an encoder write primitive at most once; if
\* it returned 0 the only further encoder call is one close, by the encoder
\* that opened the handle, on the handle that was written.
C14_NoRetry ==
  lastOp \in WriteOps =>
    /\ NumWrites(log) <= 1
    /\ WriteFailedIn(log) =>
         /\ Len(log) = 2
         /\ log[1].fn \in WriteFns
         /\ log[2].fn = opener[log[1].h] \o "_CloseFile"
         /\ log[2].h = log[1].h

C14_Witness ==
  /\ lastOp = "WriteAudio" /\ preSnd # NULL /\ WriteFailedIn(log)
  /\ Len(log) = 2 /\ log[2].fn = "WAV_CloseFile"

RoutedToVideo == lastOp = "WriteAudio" /\ log # <<>> /\ log[1].fn = "AVI_AddAudioSamples"

C16_NoOrderCheck ==
  (lastOp = "WriteVideo" /\ prevOp = "WriteVideo" /\ preAvi # NULL) =>
    /\ log # <<>>
    /\ log[1].fn = "AVI_AddVideoFrame"
    /\ log[1].h = preAvi
    /\ lastRet = log[1].ret
    /\ (log[1].ret # 0) => (Len(log) = 1 /\ avioutput = preAvi)
    /\ (log[1].ret = 0) => Idle

C16_Witness ==
  /\ lastOp = "WriteVideo" /\ prevOp = "WriteVideo" /\ preAvi # NULL
  /\ lastRet # 0 /\ avioutput = preAvi

\* C17: the handles returned by an encoder open and not yet closed are
\* exactly the active handle (none when idle); no handle is closed more than
\* once, and every close is made by the encoder that opened the handle.
OpenHandles   == {h \in Handles : opener[h] # "none" /\ closeCnt[h] = 0}
ActiveHandles == {sndoutput, avioutput} \ {NULL}

C17_NoLeakNoDoubleClose ==
  /\ OpenHandles = ActiveHandles
  /\ \A h \in Handles : closeCnt[h] <= 1
  /\ \A i \in 1..Len(log) :
       log[i].fn \in CloseFns =>
         (log[i].h \in Handles /\ ~log[i].stale
          /\ log[i].fn = opener[log[i].h] \o "_CloseFile")
  /\ sndoutput # NULL => opener[sndoutput] = "WAV"
  /\ avioutput # NULL => opener[avioutput] = "AVI"

C17_Witness ==
  /\ lastOp = "OpenSoundFile" /\ preSnd # NULL /\ sndoutput # NULL
  /\ closeCnt[preSnd] = 1 /\ OpenHandles = {sndoutput}

\* C20: an Open call returns 1 exactly when the encoder open returned a
\* handle, whatever the implicit close of the previous file returned.
C20_CloseResultDiscarded ==
  lastOp \in OpenOps =>
    /\ lastRet \in {0, 1}
    /\ lastRet = 1 <=> OpenOkIn(log)

C20_Witness ==
  /\ lastOp = "OpenVideoFile" /\ Len(log) = 2
  /\ log[1].fn \in CloseFns /\ log[1].ret = 0 /\ lastRet = 1

BothOpen    == sndoutput # NULL /\ avioutput # NULL
DoubleClose == \E h \in Handles : closeCnt[h] >= 2

\* C18: when every call runs inside the mutual-exclusion scope, whatever the
\* order in which two callers issue calls, the two handles are never both
\* non-null, and a call whose encoder write returned 0 returns with no file
\* open.
C18_LockedKeepsInvariants ==
  /\ ~BothOpen
  /\ \A c \in Callers : (pc[c] = "ret" /\ loc[c].wfail) => Idle

C18_Witness ==
  \E c \in Callers :
    /\ pc[c] = "ret" /\ loc[c].wfail /\ Idle
    /\ openedBy \in Callers \ {c}

\* C19: with the callers' statements interleaving freely a state with both
\* handles non-null, or with an unclosed handle overwritten, or with a
\* handle closed twice, is reachable (the witness); such a state arises only
\* after two calls have overlapped.
C19_UnsafeOnlyByOverlap ==
  (BothOpen \/ overwrote \/ DoubleClose) => overlapped

C19_Witness == BothOpen /\ overlapped
====
